---- MODULE Spec2Model ----
(***************************************************************************)
(* Booking and inventory engine of evMonde (backend/app): registrations,   *)
(* payment confirmation, cancellation, gateway callbacks, the waitlist     *)
(* allocator and the offer-expiry sweep, over one relational store.        *)
(*                                                                         *)
(* Store semantics.  Every handler works on its own SQLAlchemy session     *)
(* (autoflush off): it SELECTs rows into objects, changes attributes in    *)
(* memory and writes at db.commit().  The flush writes, per row, only the  *)
(* columns whose value differs from the value that was loaded, and it      *)
(* writes the value computed in memory (UPDATE ... SET col = <value>).     *)
(* A handler is therefore a read step that takes a snapshot, followed by   *)
(* a commit step that writes absolute values; other handlers may commit    *)
(* in between.  The allocator and the sweep read the Event row             *)
(* with_for_update(): from that read to their commit no other transaction  *)
(* can write the row, so their read-modify-write is one step.              *)
(***************************************************************************)
EXTENDS Integers, Sequences, FiniteSets

\* ---------------------------------------------------------------- bounds
MaxRegs == 2
MaxTime == 2
MaxCapacity == 1
MaxQuantity == 2
NumProcs == 2
MaxDrift == 1
MaxScans == 3
MaxAmount == 4
MaxRate == 2
RateStep == 25
MaxMinimum == 1
ExtraRegs == 2

\* ------------------------------------------------------ program constants
OFFER_HOURS == 1
BLACKOUT_HOURS == 24
default_commission_rate == 5
minimum_commission_amount == 0

None == 0
NoTime == 0 - 1
NoRate == 0 - 1

Events == {1}
TicketIds == {1}
Organizers == {1}
OtherEvent == 2
Procs == 1..NumProcs

RegistrationStatus == {"PENDING", "CONFIRMED", "WAITLIST", "OFFERED", "CANCELLED", "REFUNDED"}
PaymentStatus == {"NOT_REQUIRED", "PENDING", "PAID", "FAILED", "REFUNDED"}
RegistrationType == {"USER", "GUEST"}

VARIABLES
    events,       \* Event rows: capacity, available_seats, is_free, start_date
    tickets,      \* Ticket rows: event_id, price, quantity_available, quantity_sold
    regs,         \* Registration rows by id; status "NONE" = no such row
    commissions,  \* CommissionTransaction rows, in insertion order
    commission_settings, \* the CommissionSettings row
    gateway,      \* per registration: what the payment gateway holds for it
    now,          \* datetime.utcnow(), in hours
    proc          \* the requests and jobs in flight, one per worker

RegIds == DOMAIN regs

vars == <<events, tickets, regs, commissions, commission_settings, gateway, now, proc>>
db == <<events, tickets, regs, commissions, commission_settings>>

\* ------------------------------------------------------------------ rows
NoReg ==
    [status |-> "NONE", payment_status |-> "NONE", registration_type |-> "NONE",
     event_id |-> None, ticket_id |-> None, amount_paid |-> 0,
     waitlist_joined_at |-> NoTime, offer_expires_at |-> NoTime,
     stripe_session_id |-> FALSE, stripe_payment_intent_id |-> FALSE,
     qr_code_data |-> FALSE,
     scanned_count |-> 0, first_scan_at |-> NoTime, last_scan_at |-> NoTime,
     scanned_by |-> None]

NoTicket == [event_id |-> None, price |-> 0, quantity_available |-> 0, quantity_sold |-> 0]

NoGateway == [open |-> FALSE, paid |-> FALSE, expired |-> FALSE, refunded |-> FALSE]

IdleProc ==
    [op |-> "idle", pc |-> "idle", ev |-> None, reg |-> None,
     snap |-> NoReg, seats |-> 0, sold |-> 0, hascomm |-> FALSE,
     newreg |-> NoReg, expired |-> {}, touched |-> {}, result |-> "none",
     user |-> None, elapsed |-> NoTime]

Max(a, b) == IF a >= b THEN a ELSE b

\* Registration(...) with the column defaults of the model class.
Registration(e, t, type, st, pay, amount, joined) ==
    [NoReg EXCEPT !.event_id = e, !.ticket_id = t, !.registration_type = type,
                  !.status = st, !.payment_status = pay, !.amount_paid = amount,
                  !.waitlist_joined_at = joined]

\* Session.flush(): a column is written when the in-memory value differs from
\* the loaded one; the other columns keep what the store holds now.
Flush(cur, loaded, new) ==
    [f \in DOMAIN cur |-> IF new[f] # loaded[f] THEN new[f] ELSE cur[f]]

Exists(r) == regs[r].status \notin {"NONE", "DELETED"}

\* Ticket.is_sold_out
is_sold_out(t) == tickets[t].quantity_sold >= tickets[t].quantity_available

\* validate_and_get_ticket: "ok", or the HTTPException it raises.
validate_and_get_ticket(e, t) ==
    IF t \notin TicketIds \/ tickets[t].event_id = None THEN "404_ticket_not_found"
    ELSE IF tickets[t].event_id # e THEN "400_ticket_of_other_event"
    ELSE IF is_sold_out(t) THEN "400_sold_out"
    ELSE "ok"

\* The counters are unbounded in the program (a release or a confirmation can
\* be repeated); a write is modelled while the counter stays within MaxDrift
\* of its range.
SeatsInRange(e, n) == n >= 0 - MaxDrift /\ n <= events[e].capacity + MaxDrift
SoldInRange(t, n) == IF t = None THEN TRUE ELSE n <= tickets[t].quantity_available + MaxDrift

\* Ids not yet given to a row, and the id the next INSERT gets.
FreeIds == {r \in RegIds : regs[r].status = "NONE"}
Inserting == {p \in Procs : proc[p].pc \in {"insert_waitlist", "insert_pending"}}
NextId == CHOOSE r \in FreeIds : \A q \in FreeIds : r <= q
CanInsert == Cardinality(FreeIds) > Cardinality(Inserting)

\* Rows matching the duplicate-registration query of a booking route.
ExistingRegistrations(e, type, statuses) ==
    {r \in RegIds : /\ regs[r].event_id = e
                    /\ regs[r].registration_type = type
                    /\ regs[r].status \in statuses}

\* .order_by(Registration.created_at.desc()).first()
Latest(S) == CHOOSE r \in S : \A q \in S : q <= r

CommissionsOf(r) == {i \in DOMAIN commissions : commissions[i].registration_id = r}

\* ------------------------------------------------------- handler plumbing
Idle(p) == proc[p].pc = "idle"

\* The handler returns (or raises) with response res.
Respond(p, res) ==
    proc' = [proc EXCEPT ![p] = [IdleProc EXCEPT !.op = proc[p].op, !.pc = "done", !.result = res]]

\* The response is sent: the worker is free again.
Return(p) ==
    /\ proc[p].pc = "done"
    /\ proc' = [proc EXCEPT ![p] = IdleProc]
    /\ UNCHANGED <<events, tickets, regs, commissions, commission_settings, gateway, now>>

Goto(p, rec) == proc' = [proc EXCEPT ![p] = rec]

\* ------------------------------------------------------------------ Init
\* create_event: with ticket types the capacity is the sum of their quantities
\* (one ticket type here), without them it is the given capacity, 0 when none
\* is given; available_seats starts at capacity.  update_event with an
\* explicit capacity then sets capacity and available_seats and leaves the
\* ticket types alone.  quantity_available = 0 stands for "no ticket type";
\* a paid event needs one to be bookable.
EventConfigs(starts) ==
    {x \in [capacity : 0..MaxCapacity, is_free : BOOLEAN,
            quantity_available : 0..MaxQuantity, start_date : starts] :
        /\ x.capacity = 0 => x.quantity_available = 0
        /\ x.is_free => x.quantity_available <= x.capacity
        /\ ~x.is_free => x.quantity_available >= x.capacity /\ x.capacity > 0}

InitStore(n, configs) ==
    /\ \E x \in configs :
          /\ events = [e \in Events |->
                         [capacity |-> x.capacity, available_seats |-> x.capacity,
                          is_free |-> x.is_free, start_date |-> x.start_date,
                          custom_commission_rate |-> NoRate]]
          /\ tickets = [t \in TicketIds |->
                          IF x.quantity_available = 0 THEN NoTicket
                          ELSE [event_id |-> 1, price |-> 100,
                                quantity_available |-> x.quantity_available,
                                quantity_sold |-> 0]]
    /\ regs = [r \in 1..n |-> NoReg]
    /\ commissions = <<>>
    /\ commission_settings =
          [is_active |-> TRUE, default_commission_rate |-> default_commission_rate,
           minimum_commission_amount |-> minimum_commission_amount]
    /\ gateway = [r \in 1..n |-> NoGateway]
    /\ now = 0

\* The event starts so that the last hour modelled is inside the 24 h before
\* it.
StartsSoon == {MaxTime + BLACKOUT_HOURS - 1}

\* One worker: requests are served one after another.
Init ==
    /\ InitStore(MaxRegs, EventConfigs(StartsSoon))
    /\ proc = [p \in Procs |-> IF p = 1 THEN IdleProc ELSE [IdleProc EXCEPT !.pc = "off"]]

\* Every worker serves requests: handlers interleave at their store accesses.
InitConcurrent ==
    /\ InitStore(MaxRegs, EventConfigs(StartsSoon))
    /\ proc = [p \in Procs |-> IdleProc]

\* ------------------------------------------------------------------ time
Tick ==
    /\ now < MaxTime
    /\ now' = now + 1
    /\ UNCHANGED <<db, gateway, proc>>

\* ============================================================== bookings
\* A booking route up to its INSERT: the reads and checks of the route, with
\* the row it is about to add.
Booking(p, route, pc, e, row) ==
    Goto(p, [IdleProc EXCEPT !.op = route, !.pc = pc, !.ev = e, !.newreg = row])

TicketPrice(t) == IF t = None THEN 0 ELSE tickets[t].price

\* POST /events/{event_id}/register/guest (free event, guest)
register_guest_to_event(p, e, t) ==
    /\ Idle(p) /\ CanInsert
    /\ UNCHANGED <<db, gateway, now>>
    /\ LET v == IF t = None THEN "ok" ELSE validate_and_get_ticket(e, t) IN
       IF ~events[e].is_free THEN Respond(p, "400_event_is_paid")
       ELSE IF v # "ok" THEN Respond(p, v)
       ELSE IF events[e].available_seats <= 0
         THEN Booking(p, "register_guest_to_event", "insert_waitlist", e,
                  Registration(e, t, "GUEST", "WAITLIST", "NOT_REQUIRED", TicketPrice(t), now))
       ELSE IF ExistingRegistrations(e, "GUEST", {"CONFIRMED"}) # {}
         THEN Respond(p, "400_already_registered")
       \* line 281 reads settings.BACKEND_URL, a name the module never binds:
       \* NameError before the row is built, nothing is added or committed.
       ELSE Respond(p, "500_NameError")

\* What a route answers when the participant already has a CONFIRMED or
\* PENDING registration (the most recent one decides).
DuplicateResponse(x) ==
    IF regs[x].status = "CONFIRMED" THEN "400_already_registered"
    ELSE IF regs[x].stripe_session_id /\ gateway[x].open THEN "201_existing_session"
    ELSE "400_pending_exists"

\* POST /events/{event_id}/register (free event, account)
register_user_to_event(p, e, t) ==
    /\ Idle(p) /\ CanInsert
    /\ UNCHANGED <<db, gateway, now>>
    /\ LET v == IF t = None THEN "ok" ELSE validate_and_get_ticket(e, t)
           ex == ExistingRegistrations(e, "USER", {"CONFIRMED", "PENDING"}) IN
       IF ~events[e].is_free THEN Respond(p, "400_event_is_paid")
       ELSE IF v # "ok" THEN Respond(p, v)
       ELSE IF events[e].available_seats <= 0
         THEN Booking(p, "register_user_to_event", "insert_waitlist", e,
                  Registration(e, t, "USER", "WAITLIST", "NOT_REQUIRED", TicketPrice(t), now))
       ELSE IF ex # {} THEN Respond(p, DuplicateResponse(Latest(ex)))
       \* line 492 reads settings, local to the function (imported at line 465
       \* on a path that returns): UnboundLocalError, nothing is committed.
       ELSE Respond(p, "500_UnboundLocalError")

\* POST /events/{event_id}/register/guest/payment (paid event, guest)
register_guest_to_paid_event(p, e, t) ==
    /\ Idle(p) /\ CanInsert
    /\ UNCHANGED <<db, gateway, now>>
    /\ LET v == validate_and_get_ticket(e, t)
           ex == ExistingRegistrations(e, "GUEST", {"CONFIRMED", "PENDING"}) IN
       IF events[e].is_free THEN Respond(p, "400_event_is_free")
       ELSE IF t = None THEN Respond(p, "400_ticket_required")
       ELSE IF v # "ok" THEN Respond(p, v)
       ELSE IF events[e].available_seats <= 0
         THEN Booking(p, "register_guest_to_paid_event", "insert_waitlist", e,
                  Registration(e, t, "GUEST", "WAITLIST", "PENDING", TicketPrice(t), now))
       ELSE IF ex # {} THEN Respond(p, DuplicateResponse(Latest(ex)))
       ELSE Booking(p, "register_guest_to_paid_event", "insert_pending", e,
                  Registration(e, t, "GUEST", "PENDING", "PENDING", TicketPrice(t), NoTime))

\* POST /events/{event_id}/register/payment (paid event, account)
register_user_to_paid_event(p, e, t) ==
    /\ Idle(p) /\ CanInsert
    /\ UNCHANGED <<db, gateway, now>>
    /\ LET v == validate_and_get_ticket(e, t) IN
       IF events[e].is_free THEN Respond(p, "400_event_is_free")
       ELSE IF v # "ok" THEN Respond(p, v)
       ELSE IF events[e].available_seats <= 0
         THEN Booking(p, "register_user_to_paid_event", "insert_waitlist", e,
                  Registration(e, t, "USER", "WAITLIST", "PENDING", TicketPrice(t), now))
       ELSE IF ExistingRegistrations(e, "USER", {"CONFIRMED"}) # {}
         THEN Respond(p, "400_already_registered")
       ELSE Booking(p, "register_user_to_paid_event", "insert_pending", e,
                  Registration(e, t, "USER", "PENDING", "PENDING", TicketPrice(t), NoTime))

\* db.add(wait_reg); db.commit(): the waitlist placement is returned.
register_commit_waitlist(p) ==
    /\ proc[p].pc = "insert_waitlist"
    /\ regs' = [regs EXCEPT ![NextId] = proc[p].newreg]
    /\ Respond(p, "201_waitlist")
    /\ UNCHANGED <<events, tickets, commissions, commission_settings, gateway, now>>

\* db.add(new_registration); db.commit(): the PENDING row, no seat taken.
register_commit_pending(p) ==
    /\ proc[p].pc = "insert_pending"
    /\ regs' = [regs EXCEPT ![NextId] = proc[p].newreg]
    /\ Goto(p, [proc[p] EXCEPT !.pc = "create_session", !.reg = NextId, !.newreg = NoReg])
    /\ UNCHANGED <<events, tickets, commissions, commission_settings, gateway, now>>

\* create_checkout_session returned a session: its id is stored.
register_session_created(p) ==
    /\ proc[p].pc = "create_session"
    /\ regs[proc[p].reg].status # "DELETED"
    /\ gateway' = [gateway EXCEPT ![proc[p].reg].open = TRUE]
    /\ regs' = [regs EXCEPT ![proc[p].reg].stripe_session_id = TRUE]
    /\ Respond(p, "201_payment_url")
    /\ UNCHANGED <<events, tickets, commissions, commission_settings, now>>

\* create_checkout_session returned None: the row is deleted, 500.
register_session_failed(p) ==
    /\ proc[p].pc = "create_session"
    /\ regs' = [regs EXCEPT ![proc[p].reg] = [NoReg EXCEPT !.status = "DELETED"]]
    /\ Respond(p, "500_payment_session")
    /\ UNCHANGED <<events, tickets, commissions, commission_settings, gateway, now>>

\* The booking routes, served by worker p.
Bookings(p) ==
    \/ \E e \in Events, t \in TicketIds \cup {None} :
          \/ register_guest_to_event(p, e, t)
          \/ register_user_to_event(p, e, t)
          \/ register_guest_to_paid_event(p, e, t)
          \/ register_user_to_paid_event(p, e, t)
    \/ register_commit_waitlist(p)
    \/ register_commit_pending(p)
    \/ register_session_created(p)
    \/ register_session_failed(p)

\* ============================================================== gateway
\* The participant pays the open checkout session of registration r.
Pay(r) ==
    /\ gateway[r].open
    /\ gateway' = [gateway EXCEPT ![r].open = FALSE, ![r].paid = TRUE]
    /\ UNCHANGED <<db, now, proc>>

\* The gateway expires the open, unpaid checkout session of registration r.
SessionExpires(r) ==
    /\ gateway[r].open
    /\ gateway' = [gateway EXCEPT ![r].open = FALSE, ![r].expired = TRUE]
    /\ UNCHANGED <<db, now, proc>>

NextGateway == \E r \in RegIds : Pay(r) \/ SessionExpires(r)

\* ================================================= payment confirmation
\* What a confirmation loads after the registration: the event's seats, the
\* ticket's sales and whether a commission row exists.
Loaded(p, op, pc, r) ==
    Goto(p, [IdleProc EXCEPT
               !.op = op, !.pc = pc, !.reg = r, !.ev = regs[r].event_id,
               !.snap = regs[r],
               !.seats = events[regs[r].event_id].available_seats,
               !.sold = IF regs[r].ticket_id = None THEN 0
                        ELSE tickets[regs[r].ticket_id].quantity_sold,
               !.hascomm = CommissionsOf(r) # {}])

\* The CommissionTransaction of a confirmation, with the default rate also
\* for an event whose category sets a rate of its own.
CommissionRowDefaultRate(r, amount) ==
    LET rate == commission_settings.default_commission_rate
        raw == amount * rate
        fee == IF commission_settings.minimum_commission_amount > 0
               THEN Max(raw, 100 * commission_settings.minimum_commission_amount) ELSE raw
    IN [registration_id |-> r, ticket_amount |-> amount, commission_rate |-> rate,
        commission_amount |-> fee, net_amount |-> 100 * amount - fee,
        notes |-> "confirm_payment"]

\* The CommissionTransaction of a confirmation.  ticket_amount is in currency
\* units and commission_rate in percent; commission_amount and net_amount are
\* kept in hundredths of a unit, so that (amount * rate) / 100 is exact.
\* custom_commission_rate is the rate of the event's category (NoRate: the
\* event has no category or the category sets none).
CommissionRow(r, amount) ==
    LET custom == events[regs[r].event_id].custom_commission_rate
        rate == IF custom # NoRate THEN custom
                ELSE commission_settings.default_commission_rate
        raw == amount * rate
        fee == IF commission_settings.minimum_commission_amount > 0
               THEN Max(raw, 100 * commission_settings.minimum_commission_amount) ELSE raw
    IN [registration_id |-> r, ticket_amount |-> amount, commission_rate |-> rate,
        commission_amount |-> fee, net_amount |-> 100 * amount - fee,
        notes |-> "confirm_payment"]

\* The rows a confirmation writes at db.commit(), given the seat count it
\* computed in memory.
ConfirmWrites(p, newseats) ==
    LET r == proc[p].reg
        e == proc[p].ev
        s == proc[p].snap
        new == [s EXCEPT !.status = "CONFIRMED", !.payment_status = "PAID",
                         !.stripe_session_id = TRUE, !.stripe_payment_intent_id = TRUE,
                         !.qr_code_data = TRUE]
    IN /\ regs' = [regs EXCEPT ![r] = Flush(regs[r], s, new)]
       /\ events' = [events EXCEPT ![e].available_seats =
                        IF newseats # proc[p].seats THEN newseats ELSE @]
       /\ tickets' = IF s.ticket_id = None THEN tickets
                     ELSE [tickets EXCEPT ![s.ticket_id].quantity_sold = proc[p].sold + 1]
       /\ commissions' =
             IF commission_settings.is_active /\ s.amount_paid > 0 /\ ~proc[p].hascomm
             THEN Append(commissions,
                         [CommissionRow(r, s.amount_paid) EXCEPT !.notes = proc[p].op])
             ELSE commissions
       /\ UNCHANGED <<commission_settings, gateway, now>>

\* confirm_payment without its "already CONFIRMED" return.
confirm_payment_unguarded(p, r) ==
    /\ Idle(p)
    /\ gateway[r].open \/ gateway[r].paid \/ gateway[r].expired
    /\ UNCHANGED <<db, gateway, now>>
    /\ IF ~gateway[r].paid THEN Respond(p, "not_paid")
       ELSE IF ~Exists(r) THEN Respond(p, "not_found")
       ELSE Loaded(p, "confirm_payment", "confirm_commit", r)

\* POST /confirm-payment with a checkout session of registration r.
confirm_payment(p, r) ==
    /\ Idle(p)
    /\ gateway[r].open \/ gateway[r].paid \/ gateway[r].expired
    /\ UNCHANGED <<db, gateway, now>>
    /\ IF ~gateway[r].paid THEN Respond(p, "not_paid")
       ELSE IF ~Exists(r) THEN Respond(p, "not_found")
       ELSE IF regs[r].status = "CONFIRMED" THEN Respond(p, "success_already_confirmed")
       ELSE Loaded(p, "confirm_payment", "confirm_commit", r)

\* The fallback's commit written without the commission row: the registration
\* and the counters are saved, the CommissionTransaction is lost.
confirm_payment_commit_uncommissioned(p) ==
    /\ proc[p].pc = "confirm_commit"
    /\ Exists(proc[p].reg)
    /\ LET r == proc[p].reg
           s == proc[p].snap
           new == [s EXCEPT !.status = "CONFIRMED", !.payment_status = "PAID",
                            !.stripe_session_id = TRUE, !.stripe_payment_intent_id = TRUE,
                            !.qr_code_data = TRUE]
       IN /\ regs' = [regs EXCEPT ![r] = Flush(regs[r], s, new)]
          /\ events' = [events EXCEPT ![proc[p].ev].available_seats =
                           Max(0, proc[p].seats - 1)]
          /\ tickets' = IF s.ticket_id = None THEN tickets
                        ELSE [tickets EXCEPT ![s.ticket_id].quantity_sold = proc[p].sold + 1]
    /\ Respond(p, "success_confirmed")
    /\ UNCHANGED <<commissions, commission_settings, gateway, now>>

\* event.available_seats = max(0, event.available_seats - 1)
confirm_payment_commit(p) ==
    /\ proc[p].pc = "confirm_commit"
    /\ Exists(proc[p].reg)
    /\ SoldInRange(proc[p].snap.ticket_id, proc[p].sold + 1)
    /\ ConfirmWrites(p, Max(0, proc[p].seats - 1))
    /\ Respond(p, "success_confirmed")

\* POST /webhooks/stripe, checkout.session.completed for registration r.
stripe_webhook_completed(p, r) ==
    /\ Idle(p)
    /\ gateway[r].paid
    /\ UNCHANGED <<db, gateway, now>>
    /\ IF ~Exists(r) THEN Respond(p, "error_not_found")
       ELSE IF regs[r].status = "CONFIRMED" THEN Respond(p, "already_processed")
       \* line 193 reads settings.BACKEND_URL, a name webhooks.py never binds:
       \* a registration without QR token raises NameError before any commit.
       ELSE IF ~regs[r].qr_code_data THEN Respond(p, "500_NameError")
       ELSE Loaded(p, "stripe_webhook_completed", "completed_commit", r)

\* event.available_seats -= 1
stripe_webhook_completed_commit(p) ==
    /\ proc[p].pc = "completed_commit"
    /\ Exists(proc[p].reg)
    /\ SeatsInRange(proc[p].ev, proc[p].seats - 1)
    /\ SoldInRange(proc[p].snap.ticket_id, proc[p].sold + 1)
    /\ ConfirmWrites(p, proc[p].seats - 1)
    /\ Respond(p, "success")

\* checkout.session.expired for registration r.
stripe_webhook_expired(p, r) ==
    /\ Idle(p)
    /\ gateway[r].expired
    /\ UNCHANGED <<db, gateway, now>>
    /\ IF ~Exists(r) THEN Respond(p, "expired")
       ELSE Loaded(p, "stripe_webhook_expired", "expired_commit", r)

stripe_webhook_expired_commit(p) ==
    /\ proc[p].pc = "expired_commit"
    /\ Exists(proc[p].reg)
    /\ LET s == proc[p].snap
           new == [s EXCEPT !.status = "CANCELLED", !.payment_status = "FAILED"]
       IN regs' = [regs EXCEPT ![proc[p].reg] = Flush(regs[proc[p].reg], s, new)]
    /\ Respond(p, "expired")
    /\ UNCHANGED <<events, tickets, commissions, commission_settings, gateway, now>>

\* ====================================================== waitlist allocator
\* .order_by(Registration.waitlist_joined_at.asc()): NULL sorts last.
JoinedKey(r) ==
    IF regs[r].waitlist_joined_at = NoTime THEN MaxTime + 1 ELSE regs[r].waitlist_joined_at

\* The candidate query without its filter on event_id.
WaitlistedAnywhere(e) == {r \in RegIds : regs[r].status = "WAITLIST"}

Waitlisted(e) == {r \in RegIds : regs[r].event_id = e /\ regs[r].status = "WAITLIST"}

\* The candidate query ordered by waitlist_joined_at descending.
LastWaitlisted(e) ==
    {r \in Waitlisted(e) : \A q \in Waitlisted(e) : JoinedKey(r) >= JoinedKey(q)}

\* The rows the candidate query may return first (equal timestamps are in no
\* particular order).
FirstWaitlisted(e) ==
    {r \in Waitlisted(e) : \A q \in Waitlisted(e) : JoinedKey(r) <= JoinedKey(q)}

\* The caller is done with event e; it returns once no event is left.
AllocDone(p, e) ==
    IF proc[p].touched \ {e} = {}
    THEN Respond(p, proc[p].result)
    ELSE Goto(p, [proc[p] EXCEPT !.pc = "alloc", !.reg = None, !.touched = @ \ {e}])

\* allocate_waitlist_if_possible(db, event_id), lines 102-129: nothing to do.
allocate_waitlist_nothing(p, e) ==
    /\ proc[p].pc = "alloc" /\ e \in proc[p].touched
    /\ events[e].available_seats <= 0 \/ Waitlisted(e) = {}
    /\ AllocDone(p, e)
    /\ UNCHANGED <<db, gateway, now>>

\* Free event, lines 131-134: settings is local to the function (imported at
\* line 192) and read at line 134 before it is bound: UnboundLocalError.  The
\* caller catches it and commits nothing more on this session.
allocate_waitlist_free(p, e) ==
    /\ proc[p].pc = "alloc" /\ e \in proc[p].touched
    /\ events[e].available_seats > 0 /\ Waitlisted(e) # {}
    /\ events[e].is_free
    /\ AllocDone(p, e)
    /\ UNCHANGED <<db, gateway, now>>

\* Paid event, lines 183-189: the candidate is offered the seat.
allocate_waitlist_offer(p, e) ==
    /\ proc[p].pc = "alloc" /\ e \in proc[p].touched
    /\ events[e].available_seats > 0
    /\ ~events[e].is_free
    /\ \E c \in FirstWaitlisted(e) :
          /\ regs' = [regs EXCEPT ![c].status = "OFFERED",
                                  ![c].offer_expires_at = now + OFFER_HOURS]
          /\ Goto(p, [proc[p] EXCEPT !.pc = "alloc_session", !.ev = e, !.reg = c])
    /\ events' = [events EXCEPT ![e].available_seats = Max(0, @ - 1)]
    /\ UNCHANGED <<tickets, commissions, commission_settings, gateway, now>>

\* Lines 208-221: the offer's checkout session was created and is stored.
allocate_waitlist_session_created(p) ==
    /\ proc[p].pc = "alloc_session"
    /\ Exists(proc[p].reg)
    /\ regs' = [regs EXCEPT ![proc[p].reg].stripe_session_id = TRUE]
    /\ gateway' = [gateway EXCEPT ![proc[p].reg].open = TRUE]
    /\ AllocDone(p, proc[p].ev)
    /\ UNCHANGED <<events, tickets, commissions, commission_settings, now>>

\* create_checkout_session returned None (or raised): logged, nothing written.
allocate_waitlist_session_failed(p) ==
    /\ proc[p].pc = "alloc_session"
    /\ AllocDone(p, proc[p].ev)
    /\ UNCHANGED <<db, gateway, now>>

\* The allocator's steps inside the handler or job that called it.
Allocator(p) ==
    \/ \E e \in Events :
          \/ allocate_waitlist_nothing(p, e)
          \/ allocate_waitlist_free(p, e)
          \/ allocate_waitlist_offer(p, e)
    \/ allocate_waitlist_session_created(p)
    \/ allocate_waitlist_session_failed(p)

\* ============================================================ cancellation
\* The rows a release writes at db.commit(): the registration's new columns,
\* available_seats + 1 and quantity_sold - 1 floored at 0.
ReleaseWrites(p, new, release) ==
    LET r == proc[p].reg
        e == proc[p].ev
        s == proc[p].snap
    IN /\ regs' = [regs EXCEPT ![r] = Flush(regs[r], s, new)]
       /\ events' = IF release
                    THEN [events EXCEPT ![e].available_seats = proc[p].seats + 1]
                    ELSE events
       /\ tickets' = IF release /\ s.ticket_id # None
                        /\ Max(0, proc[p].sold - 1) # proc[p].sold
                     THEN [tickets EXCEPT ![s.ticket_id].quantity_sold = Max(0, proc[p].sold - 1)]
                     ELSE tickets
       /\ UNCHANGED <<commissions, commission_settings, now>>

IsPaid(row) == row.payment_status = "PAID" /\ row.stripe_payment_intent_id

\* The cancellation deadline left out.
NoBlackout(e) == FALSE

\* start_date - now < 24 h
InBlackout(e) == events[e].start_date - now < BLACKOUT_HOURS

\* DELETE /registrations/{registration_id} by the account holder, up to the
\* refund: the checks, and create_refund succeeding for a paid registration.
cancel_registration(p, r) ==
    /\ Idle(p)
    /\ regs[r].status # "NONE"
    /\ UNCHANGED <<db, now>>
    /\ IF ~Exists(r) THEN Respond(p, "404_not_found") /\ UNCHANGED gateway
       ELSE IF regs[r].registration_type # "USER"
         THEN Respond(p, "403_forbidden") /\ UNCHANGED gateway
       ELSE IF regs[r].status = "CANCELLED"
         THEN Respond(p, "400_already_cancelled") /\ UNCHANGED gateway
       ELSE IF InBlackout(regs[r].event_id)
         THEN Respond(p, "400_blackout") /\ UNCHANGED gateway
       ELSE /\ Loaded(p, "cancel_registration", "cancel_commit", r)
            /\ gateway' = IF IsPaid(regs[r])
                          THEN [gateway EXCEPT ![r].refunded = TRUE] ELSE gateway

\* create_refund returned None: 500, nothing is written.
cancel_registration_refund_failed(p, r) ==
    /\ Idle(p)
    /\ Exists(r) /\ regs[r].registration_type = "USER"
    /\ regs[r].status # "CANCELLED"
    /\ ~InBlackout(regs[r].event_id)
    /\ IsPaid(regs[r])
    /\ Respond(p, "500_refund_failed")
    /\ UNCHANGED <<db, gateway, now>>

\* The cancellation's commit without the seat going back to the event.
cancel_registration_keeps_seat(p) ==
    /\ proc[p].pc = "cancel_commit"
    /\ Exists(proc[p].reg)
    /\ LET s == proc[p].snap IN
       ReleaseWrites(p, IF IsPaid(s)
                        THEN [s EXCEPT !.status = "REFUNDED", !.payment_status = "REFUNDED"]
                        ELSE [s EXCEPT !.status = "CANCELLED"], FALSE)
    /\ Goto(p, [proc[p] EXCEPT !.pc = "alloc", !.touched = {proc[p].ev},
                               !.result = "200_cancelled"])
    /\ UNCHANGED gateway

\* Lines 1515-1530, then the allocator is called for the event.
cancel_registration_commit(p) ==
    /\ proc[p].pc = "cancel_commit"
    /\ Exists(proc[p].reg)
    /\ SeatsInRange(proc[p].ev, proc[p].seats + 1)
    /\ LET s == proc[p].snap IN
       ReleaseWrites(p, IF IsPaid(s)
                        THEN [s EXCEPT !.status = "REFUNDED", !.payment_status = "REFUNDED"]
                        ELSE [s EXCEPT !.status = "CANCELLED"], TRUE)
    /\ Goto(p, [proc[p] EXCEPT !.pc = "alloc", !.touched = {proc[p].ev},
                               !.result = "200_cancelled"])
    /\ UNCHANGED gateway

\* charge.refunded for the payment of registration r.
stripe_webhook_refunded(p, r) ==
    /\ Idle(p)
    /\ gateway[r].refunded
    /\ UNCHANGED <<db, gateway, now>>
    /\ IF ~Exists(r) \/ ~regs[r].stripe_payment_intent_id THEN Respond(p, "refunded")
       ELSE Loaded(p, "stripe_webhook_refunded", "refunded_commit", r)

\* The charge.refunded handler releasing the seat whatever payment_status was.
stripe_webhook_refunded_always(p) ==
    /\ proc[p].pc = "refunded_commit"
    /\ Exists(proc[p].reg)
    /\ SeatsInRange(proc[p].ev, proc[p].seats + 1)
    /\ LET s == proc[p].snap
       IN /\ ReleaseWrites(p, [s EXCEPT !.status = "REFUNDED", !.payment_status = "REFUNDED"],
                           TRUE)
          /\ Goto(p, [proc[p] EXCEPT !.pc = "alloc", !.touched = {proc[p].ev},
                                     !.result = "refunded"])
    /\ UNCHANGED gateway

\* Lines 398-420: already_refunded = (payment_status == REFUNDED) decides
\* whether the seat is released and the allocator called.
stripe_webhook_refunded_commit(p) ==
    /\ proc[p].pc = "refunded_commit"
    /\ Exists(proc[p].reg)
    /\ proc[p].snap.payment_status = "REFUNDED" \/ SeatsInRange(proc[p].ev, proc[p].seats + 1)
    /\ LET s == proc[p].snap
           already_refunded == s.payment_status = "REFUNDED"
       IN /\ ReleaseWrites(p, [s EXCEPT !.status = "REFUNDED", !.payment_status = "REFUNDED"],
                           ~already_refunded)
          /\ IF already_refunded THEN Respond(p, "refunded")
             ELSE Goto(p, [proc[p] EXCEPT !.pc = "alloc", !.touched = {proc[p].ev},
                                          !.result = "refunded"])
    /\ UNCHANGED gateway

\* ================================================================== sweep
\* The OFFERED registrations whose offer_expires_at has passed.
ExpiredOffers ==
    {r \in RegIds : /\ regs[r].status = "OFFERED"
                    /\ regs[r].offer_expires_at # NoTime
                    /\ regs[r].offer_expires_at < now}

\* expire_offers_and_reallocate, lines 249-258: the job loads the expired
\* offers (no lock).
expire_offers_and_reallocate(p) ==
    /\ Idle(p)
    /\ UNCHANGED <<db, gateway, now>>
    /\ IF ExpiredOffers = {} THEN Respond(p, "swept")
       ELSE Goto(p, [IdleProc EXCEPT !.op = "expire_offers_and_reallocate",
                        !.pc = "sweep_commit", !.result = "swept",
                        !.expired = {[id |-> r, row |-> regs[r]] : r \in ExpiredOffers}])

\* The sweep's commit with the expired registrations put at the back of the
\* queue (waitlist_joined_at set to the time of the sweep).
expire_offers_commit_requeued(p) ==
    /\ proc[p].pc = "sweep_commit"
    /\ regs' = [r \in RegIds |->
                  IF \E x \in proc[p].expired : x.id = r
                  THEN [regs[r] EXCEPT !.status = "WAITLIST", !.offer_expires_at = NoTime,
                                       !.stripe_session_id = FALSE,
                                       !.waitlist_joined_at = now]
                  ELSE regs[r]]
    /\ events' = [e \in Events |->
                  [events[e] EXCEPT !.available_seats =
                      @ + Cardinality({x \in proc[p].expired : x.row.event_id = e})]]
    /\ Goto(p, [proc[p] EXCEPT !.pc = "alloc", !.expired = {},
                               !.touched = {x.row.event_id : x \in proc[p].expired}])
    /\ UNCHANGED <<tickets, commissions, commission_settings, gateway, now>>

\* Lines 262-276: each loaded registration goes back to WAITLIST and its
\* event, locked and read now, gets one seat more; one commit for all.
expire_offers_commit(p) ==
    /\ proc[p].pc = "sweep_commit"
    /\ \A e \in Events : SeatsInRange(e, events[e].available_seats
                              + Cardinality({x \in proc[p].expired : x.row.event_id = e}))
    /\ regs' = [r \in RegIds |->
                  IF \E x \in proc[p].expired : x.id = r
                  THEN LET x == CHOOSE y \in proc[p].expired : y.id = r
                       IN Flush(regs[r], x.row,
                                [x.row EXCEPT !.status = "WAITLIST",
                                              !.offer_expires_at = NoTime,
                                              !.stripe_session_id = FALSE])
                  ELSE regs[r]]
    /\ events' = [e \in Events |->
                  [events[e] EXCEPT !.available_seats =
                      @ + Cardinality({x \in proc[p].expired : x.row.event_id = e})]]
    /\ Goto(p, [proc[p] EXCEPT !.pc = "alloc", !.expired = {},
                               !.touched = {x.row.event_id : x \in proc[p].expired}])
    /\ UNCHANGED <<tickets, commissions, commission_settings, gateway, now>>

\* The confirmation endpoint and the checkout.session.completed callback.
Confirmations(p) ==
    \/ \E r \in RegIds :
          \/ confirm_payment(p, r)
          \/ stripe_webhook_completed(p, r)
    \/ confirm_payment_commit(p)
    \/ stripe_webhook_completed_commit(p)

\* Cancellation by the account holder and the other gateway callbacks.
Cancellations(p) ==
    \/ \E r \in RegIds :
          \/ stripe_webhook_expired(p, r)
          \/ stripe_webhook_refunded(p, r)
          \/ cancel_registration(p, r)
          \/ cancel_registration_refund_failed(p, r)
    \/ stripe_webhook_expired_commit(p)
    \/ stripe_webhook_refunded_commit(p)
    \/ cancel_registration_commit(p)

\* The scheduler's job.
Sweep(p) ==
    \/ expire_offers_and_reallocate(p)
    \/ expire_offers_commit(p)

Worker(p) ==
    \/ Bookings(p)
    \/ Confirmations(p)
    \/ Cancellations(p)
    \/ Sweep(p)
    \/ Allocator(p)
    \/ Return(p)

Next ==
    \/ Tick
    \/ NextGateway
    \/ \E p \in Procs : Worker(p)

\* Requests are served one after another.
Spec == Init /\ [][Next]_vars

\* Two workers serve bookings and confirmations at the same time.
NextRace ==
    \/ NextGateway
    \/ \E p \in Procs :
          \/ Bookings(p)
          \/ \E r \in RegIds : confirm_payment(p, r) \/ stripe_webhook_completed(p, r)
          \/ confirm_payment_commit(p)
          \/ Return(p)

SpecRace == InitConcurrent /\ [][NextRace]_vars

\* The scheduler's job runs in a second process beside the worker, which can
\* run it as well.
NextSweep ==
    \/ Tick
    \/ NextGateway
    \/ Worker(1)
    \/ \E p \in Procs \ {1} : Sweep(p) \/ Allocator(p) \/ Return(p)

SpecSweep == InitConcurrent /\ [][NextSweep]_vars

\* A sold-out paid event that starts later: one ticket type with two units, the
\* capacity set to 1 by update_event, and registration 1 of the account
\* holder booked, paid and confirmed by confirm_payment.  Requests are served
\* one after another.
InitWaitlist ==
    /\ events = [e \in Events |->
                   [capacity |-> 1, available_seats |-> 0, is_free |-> FALSE,
                    start_date |-> MaxTime + BLACKOUT_HOURS,
                    custom_commission_rate |-> NoRate]]
    /\ tickets = [t \in TicketIds |->
                    [event_id |-> 1, price |-> 100, quantity_available |-> 2,
                     quantity_sold |-> 1]]
    /\ regs = [r \in 1..(MaxRegs + ExtraRegs) |->
                 IF r = 1
                 THEN [Registration(1, 1, "USER", "CONFIRMED", "PAID", 100, NoTime)
                         EXCEPT !.stripe_session_id = TRUE,
                                !.stripe_payment_intent_id = TRUE,
                                !.qr_code_data = TRUE]
                 ELSE NoReg]
    /\ commission_settings =
          [is_active |-> TRUE, default_commission_rate |-> default_commission_rate,
           minimum_commission_amount |-> minimum_commission_amount]
    /\ commissions = <<CommissionRow(1, 100)>>
    /\ gateway = [r \in 1..(MaxRegs + ExtraRegs) |->
                    IF r = 1 THEN [NoGateway EXCEPT !.paid = TRUE] ELSE NoGateway]
    /\ now = 0
    /\ proc = [p \in Procs |-> IF p = 1 THEN IdleProc ELSE [IdleProc EXCEPT !.pc = "off"]]

\* Guests book, the account holder cancels, the allocator offers and the sweep
\* takes expired offers back.
NextWaitlist ==
    \/ Tick
    \/ \E p \in Procs :
          \/ \E e \in Events, t \in TicketIds : register_guest_to_paid_event(p, e, t)
          \/ Sweep(p)
          \/ register_commit_waitlist(p)
          \/ register_commit_pending(p)
          \/ register_session_created(p)
          \/ \E r \in RegIds : cancel_registration(p, r)
          \/ cancel_registration_commit(p)
          \/ \E e \in Events : allocate_waitlist_nothing(p, e) \/ allocate_waitlist_offer(p, e)
          \/ allocate_waitlist_session_created(p)
          \/ Return(p)

SpecWaitlist == InitWaitlist /\ [][NextWaitlist]_vars

\* ============================================================ entrance scan
\* QRCodeVerifyResponse of a scan, by its message: valid, and whether
\* participant_email is filled in.
QRCodeVerifyResponse(res) ==
    [valid |-> res = "valid_first_scan",
     participant_email |-> res \in {"valid_first_scan", "alert_second_scan"}]

\* The query by qr_code_data, for the token of registration r (a token that
\* was never issued matches no row).
TokenFound(r) == Exists(r) /\ regs[r].qr_code_data

\* POST /verify-qr up to the scan-count branches.
verify_qr_code(p, r) ==
    /\ Idle(p)
    /\ UNCHANGED <<db, gateway, now>>
    /\ IF ~TokenFound(r) THEN Respond(p, "invalid_qr")
       ELSE IF regs[r].status # "CONFIRMED" THEN Respond(p, "invalid_status")
       ELSE Loaded(p, "verify_qr_code", "scan_commit", r)

\* POST /organizer/verify-qr up to the scan-count branches, by user u for
\* event_id ev of the request; owns: u is an admin or the event's organizer.
verify_qr_code_for_organizer(p, r, ev, u, owns) ==
    /\ Idle(p)
    /\ UNCHANGED <<db, gateway, now>>
    /\ IF ~TokenFound(r) THEN Respond(p, "invalid_qr")
       ELSE IF ev # None /\ regs[r].event_id # ev THEN Respond(p, "invalid_event")
       ELSE IF ~owns THEN Respond(p, "403_forbidden")
       ELSE IF regs[r].status # "CONFIRMED" THEN Respond(p, "invalid_status")
       ELSE Goto(p, [IdleProc EXCEPT
                       !.op = "verify_qr_code_for_organizer", !.pc = "scan_commit",
                       !.reg = r, !.ev = regs[r].event_id, !.snap = regs[r], !.user = u])

\* The branch on the loaded scanned_count, its db.commit() and the response
\* (the elapsed time is read from the row after the commit).
verify_qr_code_commit(p) ==
    /\ proc[p].pc = "scan_commit"
    /\ proc[p].snap.scanned_count < MaxScans
    /\ LET r == proc[p].reg
           s == proc[p].snap
           counted == IF s.scanned_count = 0
                      THEN [s EXCEPT !.scanned_count = 1, !.first_scan_at = now,
                                     !.last_scan_at = now]
                      ELSE [s EXCEPT !.scanned_count = @ + 1, !.last_scan_at = now]
           new == IF proc[p].op = "verify_qr_code_for_organizer"
                  THEN [counted EXCEPT !.scanned_by = proc[p].user] ELSE counted
       IN /\ regs' = [regs EXCEPT ![r] = Flush(regs[r], s, new)]
          /\ Goto(p, [IdleProc EXCEPT
                        !.op = proc[p].op, !.pc = "done",
                        !.result = IF s.scanned_count = 0 THEN "valid_first_scan"
                                   ELSE IF s.scanned_count = 1 THEN "alert_second_scan"
                                   ELSE "fraud_detected",
                        !.elapsed = IF s.scanned_count = 1 /\ regs'[r].first_scan_at # NoTime
                                    THEN now - regs'[r].first_scan_at
                                    ELSE IF s.scanned_count = 1 THEN 0 ELSE NoTime])
    /\ UNCHANGED <<events, tickets, commissions, commission_settings, gateway, now>>

\* The scan routes, served by worker p.
Scans(p) ==
    \/ \E r \in RegIds :
          \/ verify_qr_code(p, r)
          \/ \E ev \in Events \cup {None, OtherEvent}, u \in Organizers, owns \in BOOLEAN :
                verify_qr_code_for_organizer(p, r, ev, u, owns)
    \/ verify_qr_code_commit(p)

\* A paid event with one confirmed, paid registration of the account holder
\* (booked and confirmed by confirm_payment, never scanned) and two workers
\* at the entrance.
InitScan ==
    /\ events = [e \in Events |->
                   [capacity |-> 1, available_seats |-> 0, is_free |-> FALSE,
                    start_date |-> MaxTime + BLACKOUT_HOURS,
                    custom_commission_rate |-> NoRate]]
    /\ tickets = [t \in TicketIds |->
                    [event_id |-> 1, price |-> 100, quantity_available |-> 1,
                     quantity_sold |-> 1]]
    /\ regs = [r \in 1..MaxRegs |->
                 IF r = 1
                 THEN [Registration(1, 1, "USER", "CONFIRMED", "PAID", 100, NoTime)
                         EXCEPT !.stripe_session_id = TRUE,
                                !.stripe_payment_intent_id = TRUE,
                                !.qr_code_data = TRUE]
                 ELSE NoReg]
    /\ commission_settings =
          [is_active |-> TRUE, default_commission_rate |-> default_commission_rate,
           minimum_commission_amount |-> minimum_commission_amount]
    /\ commissions = <<CommissionRow(1, 100)>>
    /\ gateway = [r \in 1..MaxRegs |->
                    IF r = 1 THEN [NoGateway EXCEPT !.paid = TRUE] ELSE NoGateway]
    /\ now = 0
    /\ proc = [p \in Procs |-> IdleProc]

\* Tickets are scanned at several entrances while the holder may cancel.
NextScan ==
    \/ Tick
    \/ \E p \in Procs :
          \/ Scans(p)
          \/ \E r \in RegIds : cancel_registration(p, r)
          \/ cancel_registration_commit(p)
          \/ \E e \in Events : allocate_waitlist_nothing(p, e)
          \/ Return(p)

SpecScan == InitScan /\ [][NextScan]_vars

\* ============================================================== commission
\* PUT /commission/settings by an admin, with is_active alone in the body.
update_commission_settings(p, active) ==
    /\ Idle(p)
    /\ commission_settings' = [commission_settings EXCEPT !.is_active = active]
    /\ Respond(p, "200_settings")
    /\ UNCHANGED <<events, tickets, regs, commissions, gateway, now>>

\* A confirmation fails before its db.commit() (an exception in the handler,
\* the process dying, the commit raising and being rolled back): the session
\* is closed and nothing of it is written.
confirmation_fails(p) ==
    /\ proc[p].pc \in {"confirm_commit", "completed_commit"}
    /\ Respond(p, "500_error")
    /\ UNCHANGED <<db, gateway, now>>

\* The rates and amounts of the commission scenarios.
Rates == {k * RateStep : k \in 0..MaxRate}
Amounts == 1..MaxAmount

\* A paid event in a category with or without a rate of its own, commission
\* settings as an admin may have set them, and one registration of the
\* account holder that is PENDING with its checkout session paid.
InitCommission ==
    /\ \E custom \in Rates \cup {NoRate} :
          events = [e \in Events |->
                      [capacity |-> 1, available_seats |-> 1, is_free |-> FALSE,
                       start_date |-> MaxTime + BLACKOUT_HOURS,
                       custom_commission_rate |-> custom]]
    /\ \E amount \in Amounts :
          /\ tickets = [t \in TicketIds |->
                          [event_id |-> 1, price |-> amount, quantity_available |-> 1,
                           quantity_sold |-> 0]]
          /\ regs = [r \in 1..MaxRegs |->
                       IF r = 1
                       THEN [Registration(1, 1, "USER", "PENDING", "PENDING", amount, NoTime)
                               EXCEPT !.stripe_session_id = TRUE]
                       ELSE NoReg]
    /\ \E rate \in Rates, minimum \in 0..MaxMinimum, active \in BOOLEAN :
          commission_settings =
             [is_active |-> active, default_commission_rate |-> rate,
              minimum_commission_amount |-> minimum]
    /\ commissions = <<>>
    /\ gateway = [r \in 1..MaxRegs |->
                    IF r = 1 THEN [NoGateway EXCEPT !.paid = TRUE] ELSE NoGateway]
    /\ now = 0
    /\ proc = [p \in Procs |-> IF p = 1 THEN IdleProc ELSE [IdleProc EXCEPT !.pc = "off"]]

\* The payment is confirmed by the fallback or, after a cancellation, by a
\* completed callback that is delivered late; an admin switches the
\* commission on and off.
NextCommission ==
    \E p \in Procs :
       \/ \E active \in BOOLEAN : update_commission_settings(p, active)
       \/ \E r \in RegIds :
             \/ confirm_payment(p, r)
             \/ stripe_webhook_completed(p, r)
             \/ cancel_registration(p, r)
       \/ confirm_payment_commit(p)
       \/ stripe_webhook_completed_commit(p)
       \/ confirmation_fails(p)
       \/ cancel_registration_commit(p)
       \/ \E e \in Events : allocate_waitlist_nothing(p, e)
       \/ Return(p)

SpecCommission == InitCommission /\ [][NextCommission]_vars

\* ================================================================== offers
\* A paid event with two seats that was full with registrations 1 and 3
\* confirmed and the guest of registration 2 on the waitlist.  Registration 3
\* was refunded through the gateway and the allocator offered its seat to
\* registration 2, whose checkout session is open; then the account holder
\* cancelled registration 1, which left one seat free and nobody waiting.
InitOffered ==
    /\ events = [e \in Events |->
                   [capacity |-> 2, available_seats |-> 1, is_free |-> FALSE,
                    start_date |-> MaxTime + BLACKOUT_HOURS,
                    custom_commission_rate |-> NoRate]]
    /\ tickets = [t \in TicketIds |->
                    [event_id |-> 1, price |-> 100, quantity_available |-> 2,
                     quantity_sold |-> 0]]
    /\ regs = [r \in 1..3 |->
                 IF r = 2
                 THEN [Registration(1, 1, "GUEST", "OFFERED", "PENDING", 100, 0)
                         EXCEPT !.offer_expires_at = OFFER_HOURS,
                                !.stripe_session_id = TRUE]
                 ELSE [Registration(1, 1, IF r = 1 THEN "USER" ELSE "GUEST",
                                    "REFUNDED", "REFUNDED", 100, NoTime)
                         EXCEPT !.stripe_session_id = TRUE,
                                !.stripe_payment_intent_id = TRUE,
                                !.qr_code_data = TRUE]]
    /\ commission_settings =
          [is_active |-> TRUE, default_commission_rate |-> default_commission_rate,
           minimum_commission_amount |-> minimum_commission_amount]
    /\ commissions = <<CommissionRow(1, 100), CommissionRow(3, 100)>>
    /\ gateway = [r \in 1..3 |->
                    IF r = 2 THEN [NoGateway EXCEPT !.open = TRUE]
                    ELSE [NoGateway EXCEPT !.paid = TRUE, !.refunded = TRUE]]
    /\ now = 0
    /\ proc = [p \in Procs |-> IF p = 1 THEN IdleProc ELSE [IdleProc EXCEPT !.pc = "off"]]

\* The guest pays the offer and the payment is confirmed; the account holder
\* may cancel.  Requests are served one after another.
NextOffered ==
    \/ NextGateway
    \/ \E p \in Procs :
          \/ \E r \in RegIds :
                \/ confirm_payment(p, r)
                \/ stripe_webhook_completed(p, r)
                \/ cancel_registration(p, r)
          \/ confirm_payment_commit(p)
          \/ stripe_webhook_completed_commit(p)
          \/ cancel_registration_commit(p)
          \/ \E e \in Events : allocate_waitlist_nothing(p, e)
          \/ Return(p)

SpecOffered == InitOffered /\ [][NextOffered]_vars

\* The sold-out paid event of InitWaitlist beside another event, of which
\* only a guest's registration is kept: it has been on that event's waitlist
\* since before anybody waited here.
InitAllocator ==
    /\ events = [e \in Events |->
                   [capacity |-> 1, available_seats |-> 0, is_free |-> FALSE,
                    start_date |-> MaxTime + BLACKOUT_HOURS,
                    custom_commission_rate |-> NoRate]]
    /\ tickets = [t \in TicketIds |->
                    [event_id |-> 1, price |-> 100, quantity_available |-> 2,
                     quantity_sold |-> 1]]
    /\ regs = [r \in 1..(MaxRegs + ExtraRegs) |->
                 IF r = 1
                 THEN [Registration(1, 1, "USER", "CONFIRMED", "PAID", 100, NoTime)
                         EXCEPT !.stripe_session_id = TRUE,
                                !.stripe_payment_intent_id = TRUE,
                                !.qr_code_data = TRUE]
                 ELSE IF r = 2
                 THEN Registration(OtherEvent, None, "GUEST", "WAITLIST", "PENDING", 100, 0)
                 ELSE NoReg]
    /\ commission_settings =
          [is_active |-> TRUE, default_commission_rate |-> default_commission_rate,
           minimum_commission_amount |-> minimum_commission_amount]
    /\ commissions = <<CommissionRow(1, 100)>>
    /\ gateway = [r \in 1..(MaxRegs + ExtraRegs) |->
                    IF r = 1 THEN [NoGateway EXCEPT !.paid = TRUE] ELSE NoGateway]
    /\ now = 0
    /\ proc = [p \in Procs |-> IF p = 1 THEN IdleProc ELSE [IdleProc EXCEPT !.pc = "off"]]

SpecAllocator == InitAllocator /\ [][NextWaitlist]_vars

\* A paid event with two seats whose two confirmed holders (registrations 3
\* and 4) were refunded through the gateway while two people were waiting:
\* the allocator has offered both seats, to registrations 1 and 2, within the
\* same hour, and neither offer is paid yet.
InitExpiring ==
    /\ events = [e \in Events |->
                   [capacity |-> 2, available_seats |-> 0, is_free |-> FALSE,
                    start_date |-> MaxTime + BLACKOUT_HOURS,
                    custom_commission_rate |-> NoRate]]
    /\ tickets = [t \in TicketIds |->
                    [event_id |-> 1, price |-> 100, quantity_available |-> 2,
                     quantity_sold |-> 0]]
    /\ regs = [r \in 1..4 |->
                 IF r \in {1, 2}
                 THEN [Registration(1, 1, IF r = 1 THEN "USER" ELSE "GUEST",
                                    "OFFERED", "PENDING", 100, 0)
                         EXCEPT !.offer_expires_at = OFFER_HOURS,
                                !.stripe_session_id = TRUE]
                 ELSE [Registration(1, 1, "GUEST", "REFUNDED", "REFUNDED", 100, NoTime)
                         EXCEPT !.stripe_session_id = TRUE,
                                !.stripe_payment_intent_id = TRUE,
                                !.qr_code_data = TRUE]]
    /\ commission_settings =
          [is_active |-> TRUE, default_commission_rate |-> default_commission_rate,
           minimum_commission_amount |-> minimum_commission_amount]
    /\ commissions = <<CommissionRow(3, 100), CommissionRow(4, 100)>>
    /\ gateway = [r \in 1..4 |->
                    IF r \in {1, 2} THEN [NoGateway EXCEPT !.open = TRUE]
                    ELSE [NoGateway EXCEPT !.refunded = TRUE]]
    /\ now = 0
    /\ proc = [p \in Procs |-> IF p = 1 THEN IdleProc ELSE [IdleProc EXCEPT !.pc = "off"]]

\* The offers are paid and confirmed or left to expire; the scheduler's job
\* runs every minute.  One thing at a time.
NextExpiring ==
    \/ Tick
    \/ \E r \in RegIds : Pay(r)
    \/ \E p \in Procs :
          \/ \E r \in RegIds : confirm_payment(p, r)
          \/ confirm_payment_commit(p)
          \/ Sweep(p)
          \/ \E e \in Events : allocate_waitlist_offer(p, e)
          \/ allocate_waitlist_session_created(p)
          \/ Return(p)

SpecExpiring == InitExpiring /\ [][NextExpiring]_vars

\* ============================================================ event update
\* PUT /events/{event_id} by the organizer or an admin (allowed), with an
\* explicit capacity (None: not in the body) and a list of one ticket type
\* with quantity units (None: no list in the body).  Lines 546-548 set the
\* capacity; lines 563-587 delete the event's ticket types (the registrations
\* that held one keep a NULL ticket_id, ON DELETE SET NULL), add the new one
\* with quantity_sold at its default 0 and set capacity and available_seats
\* to the sum of the units; lines 590-591 set available_seats to the capacity
\* when the body carried one; line 594 commits.  The new ticket type takes
\* the place of the deleted one in tickets, no reference to the old row being
\* left.
update_event(p, e, allowed, capacity, quantity) ==
    /\ Idle(p)
    /\ IF ~allowed
       THEN /\ Respond(p, "403_forbidden")
            /\ UNCHANGED <<db, gateway, now>>
       ELSE LET set == IF capacity # None
                       THEN [events[e] EXCEPT !.capacity = capacity]
                       ELSE events[e]
                summed == IF quantity # None
                          THEN [set EXCEPT !.capacity = quantity,
                                           !.available_seats = quantity]
                          ELSE set
                final == IF capacity # None
                         THEN [summed EXCEPT !.available_seats = summed.capacity]
                         ELSE summed
            IN /\ events' = [events EXCEPT ![e] = final]
               /\ tickets' = IF quantity = None THEN tickets
                             ELSE [t \in TicketIds |->
                                     [event_id |-> e, price |-> 100,
                                      quantity_available |-> quantity,
                                      quantity_sold |-> 0]]
               /\ regs' = IF quantity = None THEN regs
                          ELSE [r \in RegIds |->
                                  IF regs[r].event_id = e
                                  THEN [regs[r] EXCEPT !.ticket_id = None]
                                  ELSE regs[r]]
               /\ Respond(p, "200_event")
               /\ UNCHANGED <<commissions, commission_settings, gateway, now>>

\* A paid event of two seats, one of them sold: registration 1 of the account
\* holder is CONFIRMED and paid; a guest may book the other seat.
InitUpdate ==
    /\ events = [e \in Events |->
                   [capacity |-> 2, available_seats |-> 1, is_free |-> FALSE,
                    start_date |-> MaxTime + BLACKOUT_HOURS,
                    custom_commission_rate |-> NoRate]]
    /\ tickets = [t \in TicketIds |->
                    [event_id |-> 1, price |-> 100, quantity_available |-> 2,
                     quantity_sold |-> 1]]
    /\ regs = [r \in 1..2 |->
                 IF r = 1
                 THEN [Registration(1, 1, "USER", "CONFIRMED", "PAID", 100, NoTime)
                         EXCEPT !.stripe_session_id = TRUE,
                                !.stripe_payment_intent_id = TRUE,
                                !.qr_code_data = TRUE]
                 ELSE NoReg]
    /\ commission_settings =
          [is_active |-> TRUE, default_commission_rate |-> default_commission_rate,
           minimum_commission_amount |-> minimum_commission_amount]
    /\ commissions = <<CommissionRow(1, 100)>>
    /\ gateway = [r \in 1..2 |->
                    IF r = 1 THEN [NoGateway EXCEPT !.paid = TRUE] ELSE NoGateway]
    /\ now = 0
    /\ proc = [p \in Procs |-> IF p = 1 THEN IdleProc ELSE [IdleProc EXCEPT !.pc = "off"]]

\* The organizer edits the event between the bookings, confirmations and
\* cancellations of its participants.  Requests are served one after another.
NextUpdate ==
    \/ NextGateway
    \/ \E p \in Procs :
          \/ \E e \in Events, allowed \in BOOLEAN,
                capacity \in {None} \cup 1..(MaxCapacity + 1),
                quantity \in {None} \cup 1..MaxQuantity :
                update_event(p, e, allowed, capacity, quantity)
          \/ Bookings(p)
          \/ Confirmations(p)
          \/ \E r \in RegIds : cancel_registration(p, r)
          \/ cancel_registration_commit(p)
          \/ \E e \in Events : allocate_waitlist_nothing(p, e)
          \/ Return(p)

SpecUpdate == InitUpdate /\ [][NextUpdate]_vars

\* ============================================================= properties
Holding == {"CONFIRMED", "PENDING", "OFFERED"}
Terminal == {"CANCELLED", "REFUNDED"}

\* C1: in every reachable state every event's available_seats is >= 0.
C1_SeatsNonNegative == \A e \in Events : events[e].available_seats >= 0

\* C2: in every reachable state every event's available_seats is at most its
\* capacity.
C2_SeatsAtMostCapacity == \A e \in Events : events[e].available_seats <= events[e].capacity

\* C3: in every reachable state every ticket type has
\* 0 <= quantity_sold <= quantity_available.
C3_SoldWithinQuantity ==
    \A t \in TicketIds :
        tickets[t].quantity_sold >= 0 /\ tickets[t].quantity_sold <= tickets[t].quantity_available

\* C4: for every event, capacity - available_seats is the number of its
\* registrations whose status is CONFIRMED, PENDING or OFFERED.
C4_InventoryHeld ==
    \A e \in Events :
        events[e].capacity - events[e].available_seats =
            Cardinality({r \in RegIds : regs[r].event_id = e /\ regs[r].status \in Holding})

\* C5: on an event with capacity 1 and one seat available, once the booking
\* requests of two different participants have both been answered (and nothing
\* else has acted), one registration is CONFIRMED or PENDING and the other is
\* WAITLIST.
C5_OneSeatOneBooking ==
    (/\ events[1].capacity = 1
     /\ \A r \in 1..2 : Exists(r) /\ ~gateway[r].paid
     /\ regs[1].registration_type # regs[2].registration_type
     /\ \A p \in Procs : proc[p].pc \in {"idle", "done"})
    => \E a, b \in 1..2 :
          /\ a # b
          /\ regs[a].status \in {"CONFIRMED", "PENDING"}
          /\ regs[b].status = "WAITLIST"

\* C6: whatever the interleaving of the confirmations of a registration, a
\* CONFIRMED registration has exactly one CommissionTransaction, any other has
\* none, and its ticket's quantity_sold was incremented once per confirmed
\* registration.
C6_ConfirmedOnce ==
    /\ \A r \in RegIds :
          Cardinality(CommissionsOf(r)) = IF regs[r].status = "CONFIRMED" THEN 1 ELSE 0
    /\ \A t \in TicketIds :
          tickets[t].quantity_sold =
              Cardinality({r \in RegIds : regs[r].ticket_id = t /\ regs[r].status = "CONFIRMED"})

\* C7: a confirmation (fallback or checkout-completed callback) for a
\* registration that is already CONFIRMED answers success at once and leaves the
\* registrations, the events, the tickets and the commission rows as they are.
C7_DuplicateConfirmationIsNoOp ==
    [][\A p \in Procs, r \in RegIds :
          (/\ regs[r].status = "CONFIRMED"
           /\ confirm_payment(p, r) \/ stripe_webhook_completed(p, r))
          => /\ proc'[p].pc = "done"
             /\ proc'[p].result \in {"success_already_confirmed", "already_processed"}
             /\ UNCHANGED db]_vars

\* A duplicate confirmation of a CONFIRMED registration has been answered.
C7_Witness ==
    \E p \in Procs, r \in RegIds :
        /\ proc[p].pc = "done"
        /\ proc[p].result \in {"success_already_confirmed", "already_processed"}
        /\ regs[r].status = "CONFIRMED"
        /\ Cardinality(CommissionsOf(r)) = 1

\* C8: when the allocator promotes a registration of an event, no WAITLIST
\* registration of that event joined earlier, and the other WAITLIST
\* registrations stay in WAITLIST.
C8_PromotesEarliest ==
    [][\A p \in Procs, e \in Events :
          allocate_waitlist_offer(p, e)
          => LET c == proc'[p].reg IN
             /\ c \in Waitlisted(e)
             /\ regs'[c].status = "OFFERED"
             /\ \A q \in Waitlisted(e) \ {c} :
                   /\ regs[c].waitlist_joined_at <= regs[q].waitlist_joined_at
                   /\ regs'[q].status = "WAITLIST"]_vars

\* Three registrations joined the waitlist at t1 < t2 < t3; the allocator has
\* just offered the freed seat to the first, the other two are in WAITLIST.
C8_Witness ==
    \E p \in Procs, a, b, c \in RegIds :
        /\ proc[p].pc = "alloc_session" /\ proc[p].reg = a
        /\ regs[a].status = "OFFERED"
        /\ regs[b].status = "WAITLIST" /\ regs[c].status = "WAITLIST"
        /\ regs[a].waitlist_joined_at < regs[b].waitlist_joined_at
        /\ regs[b].waitlist_joined_at < regs[c].waitlist_joined_at

\* C9: the sweep's commit leaves each expired offer it loaded in WAITLIST with
\* offer_expires_at cleared, and adds to the event's available_seats exactly
\* the number of offers it moved from OFFERED to WAITLIST: one per expiry, none
\* for an offer another pass has already taken back.
C9_SweepRestoresOnce ==
    [][\A p \in Procs :
          expire_offers_commit(p)
          => /\ \A x \in proc[p].expired :
                   /\ regs'[x.id].status = "WAITLIST"
                   /\ regs'[x.id].offer_expires_at = NoTime
             /\ \A e \in Events :
                   events'[e].available_seats - events[e].available_seats =
                       Cardinality({r \in RegIds : /\ regs[r].event_id = e
                                                   /\ regs[r].status = "OFFERED"
                                                   /\ regs'[r].status = "WAITLIST"})]_vars

\* C10: once a registration is CANCELLED or REFUNDED no step changes its
\* status, and a handler acting on it changes no event or ticket counter.
C10_TerminalStatuses ==
    [][/\ \A r \in RegIds :
             regs[r].status \in Terminal => regs'[r].status = regs[r].status
       /\ \A p \in Procs :
             (/\ proc[p].pc \in {"confirm_commit", "completed_commit", "expired_commit",
                                 "refunded_commit", "cancel_commit"}
              /\ regs[proc[p].reg].status \in Terminal
              /\ proc'[p] # proc[p])
             => UNCHANGED <<events, tickets>>]_vars

\* C11: a registration becomes CONFIRMED only from PENDING or OFFERED; a
\* confirmation for a registration in WAITLIST, CANCELLED or REFUNDED changes
\* nothing.
C11_ConfirmOnlyFromPendingOrOffered ==
    [][\A r \in RegIds :
          (regs'[r].status = "CONFIRMED" /\ regs[r].status # "CONFIRMED")
          => regs[r].status \in {"PENDING", "OFFERED"}]_vars

\* C12: a refund callback for a registration that is already REFUNDED changes
\* no registration, event, ticket or commission row and starts no allocator
\* pass: it answers at once.
C12_RefundCallbackIsNoOp ==
    [][\A p \in Procs :
          /\ \A r \in RegIds :
                (regs[r].status = "REFUNDED" /\ stripe_webhook_refunded(p, r))
                => UNCHANGED db
          /\ (proc[p].snap.status = "REFUNDED" /\ stripe_webhook_refunded_commit(p))
             => /\ UNCHANGED db
                /\ proc'[p].pc = "done"]_vars

\* The callback has loaded a registration that a cancellation refunded, the
\* seat being free again.
C12_Witness ==
    \E p \in Procs :
        /\ proc[p].pc = "refunded_commit"
        /\ proc[p].snap.status = "REFUNDED"
        /\ regs[proc[p].reg].status = "REFUNDED"
        /\ events[proc[p].ev].available_seats = events[proc[p].ev].capacity

\* C13: the step of a paid booking that creates the PENDING registration also
\* takes the seat: available_seats is one less and the ticket type's
\* quantity_sold one more.
C13_PendingReservesInventory ==
    [][\A p \in Procs :
          register_commit_pending(p)
          => LET e == proc[p].ev
                 t == proc[p].newreg.ticket_id
             IN /\ events'[e].available_seats = events[e].available_seats - 1
                /\ tickets'[t].quantity_sold = tickets[t].quantity_sold + 1]_vars

\* C14: a valid booking request that finds the event without a seat left, or
\* the requested ticket type sold out, is answered with a waitlist placement:
\* the route goes on to insert a WAITLIST registration with waitlist_joined_at
\* set, and changes no counter.
C14_ExhaustedGivesWaitlist ==
    [][\A p \in Procs, e \in Events, t \in TicketIds :
          (/\ tickets[t].event_id = e
           /\ (events[e].available_seats <= 0 \/ is_sold_out(t))
           /\ IF events[e].is_free
              THEN register_guest_to_event(p, e, t) \/ register_user_to_event(p, e, t)
              ELSE register_guest_to_paid_event(p, e, t) \/ register_user_to_paid_event(p, e, t))
          => /\ proc'[p].pc = "insert_waitlist"
             /\ proc'[p].newreg.status = "WAITLIST"
             /\ proc'[p].newreg.waitlist_joined_at = now
             /\ UNCHANGED <<events, tickets>>]_vars

\* C15: no participant (the guest, the account holder) ever has two
\* registrations in PENDING or CONFIRMED for the same event.
C15_NoDuplicateRegistration ==
    \A a, b \in RegIds :
        (/\ a # b
         /\ regs[a].event_id = regs[b].event_id
         /\ regs[a].registration_type = regs[b].registration_type
         /\ regs[a].status \in {"PENDING", "CONFIRMED"})
        => regs[b].status \notin {"PENDING", "CONFIRMED"}

C17_ExpiredCancelsOnlyPending ==
    [][\A p \in Procs :
          stripe_webhook_expired_commit(p)
          => LET r == proc[p].reg IN
             IF regs[r].status = "PENDING"
             THEN regs'[r].status = "CANCELLED"
             ELSE regs'[r].status = regs[r].status]_vars

\* C18: a cancellation asked for less than 24 hours before the event's start
\* is answered with the blackout error, and one whose refund fails with the
\* refund error; a request answered with either error has written nothing
\* (registrations, events and tickets are as before) and ends without an
\* allocator pass.
C18_FailedCancellationChangesNothing ==
    [][\A p \in Procs :
          /\ \A r \in RegIds :
                (/\ cancel_registration(p, r)
                 /\ Exists(r) /\ regs[r].registration_type = "USER"
                 /\ regs[r].status # "CANCELLED"
                 /\ events[regs[r].event_id].start_date - now < BLACKOUT_HOURS)
                => proc'[p].result = "400_blackout"
          /\ \A r \in RegIds :
                cancel_registration_refund_failed(p, r)
                => proc'[p].result = "500_refund_failed"
          /\ (proc[p].pc = "idle"
                /\ proc'[p].result \in {"400_blackout", "500_refund_failed"})
             => /\ UNCHANGED db
                /\ proc'[p].pc = "done"]_vars

\* A cancellation of a CONFIRMED registration has just been refused because
\* the event starts in less than 24 hours.
C18_Witness ==
    \E p \in Procs : \E r \in RegIds :
        /\ proc[p].result = "400_blackout"
        /\ regs[r].status = "CONFIRMED" /\ regs[r].registration_type = "USER"
        /\ events[regs[r].event_id].start_date - now < BLACKOUT_HOURS

\* A cancellation of a paid CONFIRMED registration has just failed on the
\* refund.
C18_RefundFailed ==
    \E p \in Procs : \E r \in RegIds :
        /\ proc[p].result = "500_refund_failed"
        /\ regs[r].status = "CONFIRMED" /\ IsPaid(regs[r])

\* C19: no ghost reservation: a registration that holds an offered seat
\* without a payment session is one whose offer is still being made (the
\* allocator has not yet asked the gateway for its session); once the
\* operation is over, a failed session creation has given the seat back.
C19_NoGhostReservation ==
    \A r \in RegIds :
        (regs[r].status = "OFFERED" /\ ~regs[r].stripe_session_id)
        => \E p \in Procs : proc[p].pc = "alloc_session" /\ proc[p].reg = r

\* C20: a scan of a CONFIRMED registration adds exactly one to scanned_count
\* and sets last_scan_at; the scan from 0 to 1 answers valid=true and sets
\* first_scan_at, the scan from 1 to 2 answers valid=false as a suspicious
\* repeat with the time elapsed since first_scan_at, a scan from 2 or more
\* answers valid=false as fraud without the participant's email, and
\* first_scan_at is never changed once set; a scan of a registration that is
\* not CONFIRMED answers valid=false and changes no scan counter.
C20_ScanClassification ==
    [][\A p \in Procs :
          /\ (verify_qr_code_commit(p) /\ regs[proc[p].reg].status = "CONFIRMED")
             => LET r == proc[p].reg
                    n == regs[r].scanned_count
                    res == proc'[p].result
                IN /\ regs'[r].scanned_count = n + 1
                   /\ regs'[r].last_scan_at = now
                   /\ QRCodeVerifyResponse(res).valid <=> n = 0
                   /\ n = 0 => regs'[r].first_scan_at = now
                   /\ n > 0 => regs'[r].first_scan_at = regs[r].first_scan_at
                   /\ n = 1 => /\ res = "alert_second_scan"
                               /\ proc'[p].elapsed = now - regs[r].first_scan_at
                   /\ n >= 2 => /\ res = "fraud_detected"
                                /\ ~QRCodeVerifyResponse(res).participant_email
          /\ \A r \in RegIds :
                (/\ TokenFound(r) /\ regs[r].status # "CONFIRMED"
                 /\ \/ verify_qr_code(p, r)
                    \/ \E ev \in Events \cup {None, OtherEvent}, u \in Organizers,
                          owns \in BOOLEAN :
                          verify_qr_code_for_organizer(p, r, ev, u, owns))
                => /\ UNCHANGED regs
                   /\ proc'[p].pc = "done"
                   /\ ~QRCodeVerifyResponse(proc'[p].result).valid]_vars

\* C21: every CommissionTransaction carries the rate of the event's category
\* when the category sets one and the default rate otherwise, its
\* commission_amount is max(amount_paid * rate / 100,
\* minimum_commission_amount) and its net_amount is amount_paid minus
\* commission_amount (both in hundredths), whichever path posted it.
C21_CommissionValues ==
    \A i \in DOMAIN commissions :
        LET c == commissions[i]
            r == c.registration_id
            custom == events[regs[r].event_id].custom_commission_rate
            rate == IF custom # NoRate THEN custom
                    ELSE commission_settings.default_commission_rate
        IN /\ c.ticket_amount = regs[r].amount_paid
           /\ c.commission_rate = rate
           /\ c.commission_amount =
                 Max(regs[r].amount_paid * rate,
                     100 * commission_settings.minimum_commission_amount)
           /\ c.net_amount = 100 * regs[r].amount_paid - c.commission_amount

\* A commission posted by the callback, at the category's own rate, above the
\* minimum and not a whole number of units.
C21_Witness ==
    \E i \in DOMAIN commissions :
        LET c == commissions[i] IN
        /\ c.notes = "stripe_webhook_completed"
        /\ events[regs[c.registration_id].event_id].custom_commission_rate = c.commission_rate
        /\ c.commission_rate # commission_settings.default_commission_rate
        /\ commission_settings.minimum_commission_amount > 0
        /\ c.commission_amount > 100 * commission_settings.minimum_commission_amount
        /\ c.commission_amount % 100 # 0

\* A commission posted by the fallback at the default rate, raised to the
\* minimum.
C21_FallbackAtMinimum ==
    \E i \in DOMAIN commissions :
        LET c == commissions[i] IN
        /\ c.notes = "confirm_payment"
        /\ events[regs[c.registration_id].event_id].custom_commission_rate = NoRate
        /\ c.ticket_amount * c.commission_rate
              < 100 * commission_settings.minimum_commission_amount
        /\ c.commission_amount = 100 * commission_settings.minimum_commission_amount

\* C22: a payment confirmation is one unit: the step that makes a
\* registration CONFIRMED and PAID also sets its QR token, adjusts the
\* event's and the ticket type's counters and, the commission being active
\* and the amount positive, leaves a CommissionTransaction for it; a
\* CommissionTransaction is posted only in such a step; and a confirmation
\* that fails writes nothing.
C22_ConfirmationIsAtomic ==
    [][/\ \A r \in RegIds :
             LET e == regs[r].event_id
                 t == regs[r].ticket_id
                 confirmed == /\ regs[r].status # "CONFIRMED"
                              /\ regs'[r].status = "CONFIRMED"
                              /\ regs'[r].payment_status = "PAID"
                 posted == /\ Len(commissions') > Len(commissions)
                           /\ commissions'[Len(commissions')].registration_id = r
             IN /\ confirmed
                   => /\ regs'[r].qr_code_data
                      /\ events'[e].available_seats
                            \in {events[e].available_seats - 1, 0}
                      /\ t # None => tickets'[t].quantity_sold = tickets[t].quantity_sold + 1
                      /\ (commission_settings.is_active /\ regs[r].amount_paid > 0)
                         => \E i \in DOMAIN commissions' :
                               commissions'[i].registration_id = r
                /\ posted => confirmed
       /\ \A p \in Procs : confirmation_fails(p) => UNCHANGED db]_vars

\* A confirmation has just been committed: the registration is CONFIRMED and
\* PAID and has its CommissionTransaction.
C22_Witness ==
    \E p \in Procs : \E r \in RegIds :
        /\ proc[p].result \in {"success_confirmed", "success"}
        /\ regs[r].status = "CONFIRMED" /\ regs[r].payment_status = "PAID"
        /\ regs[r].qr_code_data
        /\ \E i \in DOMAIN commissions : commissions[i].registration_id = r

\* C23: the confirmation of an OFFERED registration, on the callback path and
\* on the fallback path, leaves the event's available_seats as the allocator
\* left it when it made the offer.
C23_OfferedConfirmationKeepsSeats ==
    [][\A p \in Procs :
          (/\ confirm_payment_commit(p) \/ stripe_webhook_completed_commit(p)
           /\ regs[proc[p].reg].status = "OFFERED")
          => events'[proc[p].ev].available_seats = events[proc[p].ev].available_seats]_vars

C25_AllocatorPromotes ==
    [][\A p \in Procs : \A e \in Events :
          (/\ proc[p].pc = "alloc" /\ e \in proc[p].touched
           /\ events[e].available_seats > 0
           /\ \E r \in RegIds : regs[r].event_id = e /\ regs[r].status = "WAITLIST"
           /\ proc'[p] # proc[p])
          => \E c \in RegIds :
                /\ regs[c].event_id = e /\ regs[c].status = "WAITLIST"
                /\ events'[e].available_seats = events[e].available_seats - 1
                /\ IF events[e].is_free
                   THEN /\ regs'[c].status = "CONFIRMED"
                        /\ regs'[c].qr_code_data
                        /\ regs[c].ticket_id # None
                           => tickets'[regs[c].ticket_id].quantity_sold
                                 = tickets[regs[c].ticket_id].quantity_sold + 1
                   ELSE /\ regs'[c].status = "OFFERED"
                        /\ regs'[c].offer_expires_at = now + OFFER_HOURS]_vars

\* C26: every seat a sweep releases gets its allocation pass: when the sweep
\* has completed, no event is left with available_seats > 0 and a WAITLIST
\* registration.
C26_SweepAllocatesEverySeat ==
    \A p \in Procs :
        (proc[p].op = "expire_offers_and_reallocate" /\ proc[p].pc = "done")
        => \A e \in Events :
              ~(/\ events[e].available_seats > 0
                /\ \E r \in RegIds : regs[r].event_id = e /\ regs[r].status = "WAITLIST")

C28_SeatsReadAndWrittenUnderLock ==
    [][\A p \in Procs :
          (\/ confirm_payment_commit(p)
           \/ stripe_webhook_completed_commit(p)
           \/ cancel_registration_commit(p)
           \/ stripe_webhook_refunded_commit(p))
          => proc[p].seats = events[proc[p].ev].available_seats]_vars

\* C29: a step changes an event's available_seats or a ticket type's
\* quantity_sold only if it is the commit of a booking, of a payment
\* confirmation, of a cancellation, of a refund or session-expired callback,
\* of the allocator or of the sweep; an organizer's update of the event
\* changes neither.
C29_InventoryWrittenOnlyByLedgerSteps ==
    [][(\/ \E e \in Events :
              events'[e].available_seats # events[e].available_seats
        \/ \E t \in TicketIds :
              tickets'[t].quantity_sold # tickets[t].quantity_sold)
       => \E p \in Procs :
             \/ register_commit_waitlist(p)
             \/ register_commit_pending(p)
             \/ confirm_payment_commit(p)
             \/ stripe_webhook_completed_commit(p)
             \/ stripe_webhook_expired_commit(p)
             \/ stripe_webhook_refunded_commit(p)
             \/ cancel_registration_commit(p)
             \/ expire_offers_commit(p)
             \/ \E e \in Events :
                   allocate_waitlist_free(p, e) \/ allocate_waitlist_offer(p, e)]_vars

\* C30: a registration's token is answered valid=true at most once: a scan
\* is answered valid=true only while no scan of the registration has been
\* recorded yet (every valid answer records one, and scanned_count never
\* returns to 0), whichever route and worker serve it.
C30_OneValidScan ==
    [][\A p \in Procs :
          (verify_qr_code_commit(p) /\ QRCodeVerifyResponse(proc'[p].result).valid)
          => regs[proc[p].reg].scanned_count = 0]_vars

====
